---- MODULE Spec2Model ----
(***************************************************************************)
(* The file-storage gateway of src/index.js: six request handlers          *)
(* (upload, list, download, delete, statistics, file formats) over a blob  *)
(* store (the bucket) and a document store (the "files" and "downloads"    *)
(* collections).  Every `await` of a handler is one atomic step; requests  *)
(* interleave between steps.  A store call either takes effect or throws.  *)
(***************************************************************************)
EXTENDS Integers, Sequences, FiniteSets, TLC

\* ------------------------------------------------------------------ bounds
MaxRequests == 2      \* requests that ever arrive
MaxInFlight == 2      \* requests being handled at the same time
MaxFiles == 2         \* longest payload list / declared-name list of an upload
DownloadEvents == 1   \* documents in the externally written "downloads" collection

\* ------------------------------------------------------- values of the model
Names == {"a", "b"}
\* The bucket lists its objects in lexicographic order of their names.
PathOrder == <<"files/a", "files/b">>
\* Milliseconds that pass between two readings of the clock.
TickMs == 1500

PngType == <<"i", "m", "g", "/", "p", "n", "g">>
UnknownType == <<"a", "p", "p", "/", "x", "-", "u">>

\* What multer hands over per payload: file.buffer and file.mimetype.
Files ==
  { [buffer |-> [content |-> "p", length |-> 8388608], mimetype |-> PngType],
    [buffer |-> [content |-> "q", length |-> 3145728], mimetype |-> UnknownType] }

SeqsUpTo(S, n) == UNION {[1..k -> S] : k \in 0..n}

\* req.files: undefined when the request is not multipart, else an array.
\* The payloads of one request are copies of one file.
FilesInputs ==
  {[present |-> FALSE, list |-> <<>>]}
    \cup {[present |-> TRUE, list |-> [k \in 1..n |-> f]] : f \in Files, n \in 0..MaxFiles}

\* req.body.fileNames: text that is no JSON, the JSON text null, or a JSON array.
FileNamesInputs ==
  {[kind |-> "invalid", list |-> <<>>], [kind |-> "null", list |-> <<>>]}
    \cup {[kind |-> "array", list |-> ns] : ns \in SeqsUpTo(Names, MaxFiles)}

\* ------------------------------------------------------------ pure helpers
Digits == <<"0", "1", "2", "3", "4", "5", "6", "7", "8", "9">>

RECURSIVE DecimalString(_)
\* The decimal text of a natural number, one character per element.
DecimalString(n) ==
  IF n < 10 THEN <<Digits[n + 1]>>
  ELSE Append(DecimalString(n \div 10), Digits[(n % 10) + 1])

DigitValue(c) == CHOOSE d \in 0..9 : Digits[d + 1] = c

IsDigit(c) == \E d \in 0..9 : Digits[d + 1] = c

RECURSIVE ParseDigits(_, _)
ParseDigits(s, acc) ==
  IF s = <<>> \/ ~IsDigit(Head(s)) THEN acc
  ELSE ParseDigits(Tail(s), acc * 10 + DigitValue(Head(s)))

\* parseInt(text, 10): the leading digits' value; -1 stands for NaN.
ParseInt(s) == IF s = <<>> \/ ~IsDigit(Head(s)) THEN -1 ELSE ParseDigits(s, 0)

RECURSIVE Split(_, _)
\* text.split(sep): the pieces between the separators.
Split(s, sep) ==
  IF \A k \in 1..Len(s) : s[k] # sep THEN <<s>>
  ELSE LET k == CHOOSE j \in 1..Len(s) : s[j] = sep /\ \A h \in 1..(j - 1) : s[h] # sep
       IN <<SubSeq(s, 1, k - 1)>> \o Split(SubSeq(s, k + 1, Len(s)), sep)

Path(fileName) == "files/" \o fileName

Expires == "03-09-2491"

\* The link getSignedUrl returns for a path: it names the object, what it
\* allows and until when.
SignedUrl(path) == [path |-> path, action |-> "read", expires |-> Expires]

NoURL == [path |-> "", action |-> "", expires |-> ""]

MsPerSecond == 1000

\* Date.toLocaleString(): the instant to the second, the milliseconds dropped.
ToLocaleString(date) == date \div MsPerSecond

BytesPerGB == 1073741824

Pad2(n) == IF n < 10 THEN <<"0">> \o DecimalString(n) ELSE DecimalString(n)

\* (bytes / 2^30).toFixed(2): rounded to the nearest hundredth, halves up.
\* round(bytes * 100 / 2^30) is computed as (bytes * 25 + 2^27) div 2^28.
ToFixed2(bytes) ==
  LET h == (bytes * 25 + (BytesPerGB \div 8)) \div (BytesPerGB \div 4)
  IN DecimalString(h \div 100) \o <<".">> \o Pad2(h % 100)

\* ------------------------------------------------------------------- state
VARIABLES
  blobs,       \* the bucket: path -> object (exists = FALSE: no object there)
  records,     \* the "files" collection: a set of documents
  nextId,      \* the identifier the document store generates next
  downloads,   \* size of the "downloads" collection
  clock,       \* the instant new Date() last returned
  reqs,        \* the requests being handled: position, locals and response
  nReq,        \* requests that have arrived
  alive        \* the process is running

vars == <<blobs, records, nextId, downloads, clock, reqs, nReq, alive>>

Slots == 1..MaxInFlight

NoData == [found |-> FALSE, fileName |-> ""]

NoFiles == [present |-> FALSE, list |-> <<>>]

NoBody == [kind |-> "invalid", list |-> <<>>]

\* A handler's arguments, locals and response.  log, foreign, resaved and
\* before record what happened, for the properties; no handler reads them:
\*   log      the store calls this request made, with their outcomes
\*   foreign  another request changed a store since this one arrived
\*   resaved  another request wrote the blob this delete had removed
\*   before   the bucket's listing when the request arrived
NoReq ==
  [op |-> "none", pc |-> "idle",
   files |-> NoFiles, body |-> NoBody, fileNames |-> <<>>, fileName |-> "", fileId |-> 0,
   i |-> 0, fileURLs |-> <<>>, fileURL |-> NoURL, exists |-> FALSE, fileData |-> NoData,
   listing |-> <<>>, totalDownloads |-> 0, totalUsedBytes |-> 0, formats |-> <<>>,
   status |-> 0, message |-> "", data |-> <<>>, sent |-> 0,
   threw |-> FALSE, log |-> <<>>, foreign |-> FALSE, resaved |-> FALSE, before |-> <<>>]

\* "done": answered; "unhandled": dropped by an uncaught error; "past":
\* either of the two, a store having changed since.
Finished(q) == q.pc \in {"done", "unhandled", "past"}

InFlight(q) == q.pc \notin {"idle", "done", "unhandled", "past"}

\* ------------------------------------------------------------- blob store
Paths == {Path(n) : n \in Names}

NoBlob ==
  [exists |-> FALSE, payload |-> [content |-> "", length |-> 0],
   contentType |-> <<>>, size |-> <<>>]

Exists(b, path) == path \in DOMAIN b /\ b[path].exists

\* The object fileRef.save(buffer, {contentType}) leaves at the path.
BlobOf(file) ==
  [exists |-> TRUE, payload |-> file.buffer, contentType |-> file.mimetype,
   size |-> DecimalString(file.buffer.length)]

\* (mutation) a save over an object replaces its content and keeps its
\* content type.
SaveBlobKeepsType(b, path, file) ==
  IF b[path].exists
  THEN [b EXCEPT ![path] = [BlobOf(file) EXCEPT !.contentType = b[path].contentType]]
  ELSE [b EXCEPT ![path] = BlobOf(file)]

\* (mutation) save does not overwrite: an object already there is kept.
SaveBlobIfAbsent(b, path, file) ==
  IF b[path].exists THEN b ELSE [b EXCEPT ![path] = BlobOf(file)]

\* save creates the object or overwrites the one there.
SaveBlob(b, path, file) == [b EXCEPT ![path] = BlobOf(file)]

\* (mutation) the blob delete reports success and removes nothing.
RemoveBlobKeeps(b, path) == b

RemoveBlob(b, path) == [b EXCEPT ![path] = NoBlob]

\* bucket.getFiles(): the names (paths) of all objects, in the bucket's order.
GetFiles(b) == SelectSeq(PathOrder, LAMBDA p : b[p].exists)

\* ---------------------------------------------------------- document store
FileRecord(id, fileName, uploadDate, fileURL) ==
  [id |-> id, fileName |-> fileName, uploadDate |-> uploadDate, fileURL |-> fileURL]

\* (mutation) the document is stored under its file name: it replaces the
\* documents of that name.
AddRecordByName(recs, id, fileName, uploadDate, fileURL) ==
  {d \in recs : d.fileName # fileName} \cup {FileRecord(id, fileName, uploadDate, fileURL)}

\* collection.add(...): a new document under an identifier of its own.
AddRecord(recs, id, fileName, uploadDate, fileURL) ==
  recs \cup {FileRecord(id, fileName, uploadDate, fileURL)}

\* fileDoc.get().data(): the document, or undefined.
GetData(recs, id) ==
  IF \E d \in recs : d.id = id
  THEN [found |-> TRUE, fileName |-> (CHOOSE d \in recs : d.id = id).fileName]
  ELSE NoData

\* (mutation) the document delete removes nothing.
DeleteRecordKeeps(recs, id) == recs

DeleteRecord(recs, id) == {d \in recs : d.id # id}

\* ----------------------------------------------------------------- set-up
\* The stores outlive the process: it starts on empty stores or on what an
\* earlier run committed (one uploaded file).
InitFile == CHOOSE f \in Files : f.mimetype = PngType

InitStores ==
  { [blobs |-> [p \in Paths |-> NoBlob], records |-> {}, nextId |-> 1],
    [blobs |-> SaveBlob([p \in Paths |-> NoBlob], Path("a"), InitFile),
     records |-> {FileRecord(1, "a", 0, SignedUrl(Path("a")))},
     nextId |-> 2] }

Init ==
  /\ \E s \in InitStores :
       /\ blobs = s.blobs
       /\ records = s.records
       /\ nextId = s.nextId
  /\ downloads = DownloadEvents
  /\ clock = 0
  /\ reqs = [r \in Slots |-> NoReq]
  /\ nReq = 0
  /\ alive = TRUE

\* -------------------------------------------------------- request plumbing
\* A request arrives in the first slot that never held one or, when there is
\* none, in the first whose request has been answered.
CanStart(r) ==
  /\ alive
  /\ nReq < MaxRequests
  /\ ~InFlight(reqs[r])
  /\ \A s \in Slots : s < r => reqs[s].pc # "idle"
  /\ reqs[r].pc # "idle" => \A s \in Slots : InFlight(reqs[s]) \/ (s >= r /\ reqs[s].pc # "idle")

At(r, op, pc) == alive /\ reqs[r].op = op /\ reqs[r].pc = pc

Call(name, path, id, ok) ==
  [call |-> name, path |-> path, id |-> id, ok |-> ok, size |-> <<>>,
   contentType |-> <<>>]

Logged(q, name, path, id, ok) == [q EXCEPT !.log = Append(@, Call(name, path, id, ok))]

\* res.status(s).send(...): the handler's one response.
Respond(q, status, message, data) ==
  [q EXCEPT !.pc = "done", !.status = status, !.message = message,
            !.data = data, !.sent = @ + 1]

\* The handlers' catch blocks: a log line and the operation's generic 500.
FailureMessage(op) ==
  CASE op = "Upload" -> "Failed to upload files"
    [] op = "List" -> "Failed to fetch files"
    [] op = "Download" -> "Failed to download file"
    [] op = "Delete" -> "Failed to delete file"
    [] op = "Statistics" -> "Failed to fetch statistics"
    [] op = "FileFormats" -> "Failed to fetch file formats"

Catch(q) == Respond([q EXCEPT !.threw = TRUE], 500, FailureMessage(q.op), <<>>)

Arrived(op) == [NoReq EXCEPT !.op = op, !.before = GetFiles(blobs)]

\* What a step that changed a store (`mutated`), writing the blob at `saved`
\* ("" for none), leaves in another slot.  A finished request is kept as it
\* ended, and is marked "past" once a store changes: what it saw then is no
\* longer what the stores hold.  One being handled notes the change.
Other(q, mutated, saved) ==
  IF ~InFlight(q)
  THEN (IF mutated /\ Finished(q) THEN [q EXCEPT !.pc = "past"] ELSE q)
  ELSE [q EXCEPT !.foreign = @ \/ mutated,
                 !.resaved = @ \/ (q.op = "Delete" /\ q.pc = "doc" /\ saved # ""
                                    /\ saved = Path(q.fileData.fileName))]

\* The step of slot r: its request becomes q.
Update(r, q, mutated, saved) ==
  reqs' = [s \in Slots |-> IF s = r THEN q ELSE Other(reqs[s], mutated, saved)]

Step(r, q) == Update(r, q, FALSE, "")

\* An error thrown outside the handler's try block rejects the async handler's
\* promise, which the handler never catches.  What follows is the platform's:
\* Express 4 drops the rejection and the request is never answered ("hang"),
\* Node ends the process on an unhandled rejection ("exit"), and Express 5
\* forwards it to its default error handler, which answers 500 with the
\* error itself ("framework").
UnhandledOutcomes == {"hang", "exit", "framework"}

Unhandled(r, q, outcome) ==
  /\ alive' = (outcome # "exit")
  /\ Step(r, IF outcome = "framework"
             THEN Respond([q EXCEPT !.threw = TRUE], 500, "SyntaxError", <<>>)
             ELSE [q EXCEPT !.threw = TRUE, !.pc = "unhandled"])

\* ------------------------------------------------------------------ upload
\* JSON.parse(req.body.fileNames): throws on text that is no JSON.
JSONParse(body) ==
  [ok |-> body.kind # "invalid",
   value |-> [isNull |-> body.kind = "null", list |-> body.list]]

\* !files || !fileNames || files.length !== fileNames.length
UploadRejects(files, fileNames) ==
  \/ ~files.present
  \/ fileNames.isNull
  \/ Len(files.list) # Len(fileNames.list)

\* (mutation) the loop writes the document first, and never the blob.
UploadLoopAddsFirst(q) ==
  IF q.i <= Len(q.files.list)
  THEN [q EXCEPT !.pc = "add"]
  ELSE Respond(q, 200, "Files uploaded successfully", q.fileURLs)

\* The for loop's test, and the response after the loop.
UploadLoop(q) ==
  IF q.i <= Len(q.files.list)
  THEN [q EXCEPT !.pc = "save"]
  ELSE Respond(q, 200, "Files uploaded successfully", q.fileURLs)

\* (mutation) the error is caught inside the loop, which goes on with the
\* next pair.
UploadSkipsFailedPair(q) ==
  IF q.i + 1 <= Len(q.files.list)
  THEN [q EXCEPT !.i = @ + 1, !.pc = "save", !.threw = TRUE]
  ELSE Catch(q)

\* The catch block around the whole loop.
UploadOnError(q) == Catch(q)

\* (mutation) the link replaces the list instead of being pushed onto it.
PushURLReplaces(fileURLs, fileURL) == <<fileURL>>

\* fileURLs.push(fileURL)
PushURL(fileURLs, fileURL) == Append(fileURLs, fileURL)

\* (mutation) the upload adds its document to the download collection.
UploadWrongCollection == "downloads"

\* The collection the upload adds its document to.
UploadCollection == "files"

\* The request arrives: lines 67-74, then the loop's first test.
Upload(r, files, body) ==
  /\ CanStart(r)
  /\ nReq' = nReq + 1
  /\ UNCHANGED <<blobs, records, nextId, downloads, clock>>
  /\ LET q == [Arrived("Upload") EXCEPT !.files = files, !.body = body]
         parsed == JSONParse(body)
     IN IF ~parsed.ok
        THEN \E outcome \in UnhandledOutcomes : Unhandled(r, q, outcome)
        ELSE /\ UNCHANGED alive
             /\ IF UploadRejects(files, parsed.value)
                THEN Step(r, Respond(q, 400,
                       "Missing required fields or mismatch in file count", <<>>))
                ELSE Step(r, UploadLoop([q EXCEPT !.fileNames = parsed.value.list,
                                                 !.i = 1]))

\* await fileRef.save(file.buffer, { contentType })
UploadSave(r) ==
  /\ At(r, "Upload", "save")
  /\ UNCHANGED <<records, nextId, downloads, clock, nReq, alive>>
  /\ LET q == reqs[r]
         path == Path(q.fileNames[q.i])
     IN \E ok \in BOOLEAN :
          IF ok
          THEN /\ blobs' = SaveBlob(blobs, path, q.files.list[q.i])
               /\ Update(r, [Logged(q, "save", path, 0, TRUE) EXCEPT !.pc = "sign"],
                         TRUE, path)
          ELSE /\ UNCHANGED blobs
               /\ Step(r, UploadOnError(Logged(q, "save", path, 0, FALSE)))

\* const [fileURL] = await fileRef.getSignedUrl(...); fileURLs.push(fileURL)
UploadGetSignedUrl(r) ==
  /\ At(r, "Upload", "sign")
  /\ UNCHANGED <<blobs, records, nextId, downloads, clock, nReq, alive>>
  /\ LET q == reqs[r]
         path == Path(q.fileNames[q.i])
         fileURL == SignedUrl(path)
     IN \E ok \in BOOLEAN :
          IF ok
          THEN Step(r, [Logged(q, "getSignedUrl", path, 0, TRUE) EXCEPT
                          !.pc = "add", !.fileURL = fileURL,
                          !.fileURLs = PushURL(@, fileURL)])
          ELSE Step(r, UploadOnError(Logged(q, "getSignedUrl", path, 0, FALSE)))

\* await db.collection("files").add({ fileName, uploadDate: new Date(), fileURL })
UploadAdd(r) ==
  /\ At(r, "Upload", "add")
  /\ UNCHANGED <<blobs, nReq, alive>>
  /\ clock' = clock + TickMs
  /\ LET q == reqs[r]
     IN \E ok \in BOOLEAN :
          IF ok
          THEN /\ IF UploadCollection = "files"
                  THEN /\ records' = AddRecord(records, nextId, q.fileNames[q.i],
                                               clock', q.fileURL)
                       /\ UNCHANGED downloads
                  ELSE /\ downloads' = downloads + 1
                       /\ UNCHANGED records
               /\ nextId' = nextId + 1
               /\ Update(r, UploadLoop([Logged(q, "add", "", nextId, TRUE)
                                          EXCEPT !.i = @ + 1]), TRUE, "")
          ELSE /\ UNCHANGED <<records, nextId, downloads>>
               /\ Step(r, UploadOnError(Logged(q, "add", "", 0, FALSE)))

\* -------------------------------------------------------------------- list
\* snapshot.docs.map(...): each document with its id and its date as text,
\* in the store's order (by id).
ListEntry(d) ==
  [id |-> d.id, fileName |-> d.fileName,
   uploadDate |-> ToLocaleString(d.uploadDate), fileURL |-> d.fileURL]

ListEntries(recs) ==
  [k \in 1..Cardinality(recs) |->
     ListEntry(CHOOSE d \in recs : Cardinality({e \in recs : e.id < d.id}) = k - 1)]

List(r) ==
  /\ CanStart(r)
  /\ nReq' = nReq + 1
  /\ UNCHANGED <<blobs, records, nextId, downloads, clock, alive>>
  /\ Step(r, [Arrived("List") EXCEPT !.pc = "get"])

\* const snapshot = await db.collection("files").get(); res.status(200).json(files)
ListGet(r) ==
  /\ At(r, "List", "get")
  /\ UNCHANGED <<blobs, records, nextId, downloads, clock, nReq, alive>>
  /\ LET q == reqs[r]
     IN \E ok \in BOOLEAN :
          IF ok
          THEN Step(r, Respond(Logged(q, "get", "", 0, TRUE), 200, "",
                               ListEntries(records)))
          ELSE Step(r, Catch(Logged(q, "get", "", 0, FALSE)))

\* ---------------------------------------------------------------- download
\* (mutation) the existence check's answer is ignored.
DownloadNeverMissing(exists) == FALSE

\* if (!exists)
DownloadMissing(exists) == ~exists

Download(r, fileName) ==
  /\ CanStart(r)
  /\ nReq' = nReq + 1
  /\ UNCHANGED <<blobs, records, nextId, downloads, clock, alive>>
  /\ Step(r, [Arrived("Download") EXCEPT !.pc = "exists", !.fileName = fileName])

\* const [exists] = await fileRef.exists()
DownloadExists(r) ==
  /\ At(r, "Download", "exists")
  /\ UNCHANGED <<blobs, records, nextId, downloads, clock, nReq, alive>>
  /\ LET q == reqs[r]
         path == Path(q.fileName)
     IN \E ok \in BOOLEAN :
          IF ok
          THEN LET q1 == [Logged(q, "exists", path, 0, TRUE) EXCEPT
                                !.exists = Exists(blobs, path)]
               IN IF DownloadMissing(q1.exists)
                  THEN Step(r, Respond(q1, 404, "File not found", <<>>))
                  ELSE Step(r, [q1 EXCEPT !.pc = "sign"])
          ELSE Step(r, Catch(Logged(q, "exists", path, 0, FALSE)))

\* const [fileURL] = await fileRef.getSignedUrl(...)
DownloadGetSignedUrl(r) ==
  /\ At(r, "Download", "sign")
  /\ UNCHANGED <<blobs, records, nextId, downloads, clock, nReq, alive>>
  /\ LET q == reqs[r]
         path == Path(q.fileName)
     IN \E ok \in BOOLEAN :
          IF ok
          THEN Step(r, [Logged(q, "getSignedUrl", path, 0, TRUE) EXCEPT
                          !.pc = "fetch", !.fileURL = SignedUrl(path)])
          ELSE Step(r, Catch(Logged(q, "getSignedUrl", path, 0, FALSE)))

\* (mutation) the response's status is not looked at.
ResponseAlwaysOk(b, path, ok) == ok

\* response.ok: the fetch came back, and with a success status, which the
\* store gives only when the object is at the link's path.
ResponseOk(b, path, ok) == ok /\ Exists(b, path)

\* const response = await fetch(fileURL): the store answers the link with the
\* object now at its path, or with a non-success status when there is none;
\* then the headers are set and the body is piped to the response.
DownloadFetch(r) ==
  /\ At(r, "Download", "fetch")
  /\ UNCHANGED <<blobs, records, nextId, downloads, clock, nReq, alive>>
  /\ LET q == reqs[r]
         path == q.fileURL.path
     IN \E ok \in BOOLEAN :
          IF ResponseOk(blobs, path, ok)
          THEN Step(r, Respond(Logged(q, "fetch", path, 0, TRUE), 200, "",
                               <<[disposition |-> q.fileName,
                                  contentType |-> blobs[path].contentType,
                                  body |-> blobs[path].payload]>>))
          ELSE Step(r, Catch(Logged(q, "fetch", path, 0, FALSE)))

\* ------------------------------------------------------------------ delete
\* (mutation) the lookup's answer is ignored.
DeleteNeverMissing(fileData) == FALSE

\* if (!fileData)
DeleteMissing(fileData) == ~fileData.found

Delete(r, fileId) ==
  /\ CanStart(r)
  /\ nReq' = nReq + 1
  /\ UNCHANGED <<blobs, records, nextId, downloads, clock, alive>>
  /\ Step(r, [Arrived("Delete") EXCEPT !.pc = "get", !.fileId = fileId])

\* const fileData = (await fileDoc.get()).data()
DeleteGet(r) ==
  /\ At(r, "Delete", "get")
  /\ UNCHANGED <<blobs, records, nextId, downloads, clock, nReq, alive>>
  /\ LET q == reqs[r]
         fileData == GetData(records, q.fileId)
     IN \E ok \in BOOLEAN :
          IF ok
          THEN LET q1 == [Logged(q, "get", "", q.fileId, TRUE) EXCEPT
                                !.fileData = fileData]
               IN IF DeleteMissing(fileData)
                  THEN Step(r, Respond(q1, 404, "File not found", <<>>))
                  ELSE Step(r, [q1 EXCEPT !.pc = "blob"])
          ELSE Step(r, Catch(Logged(q, "get", "", q.fileId, FALSE)))

\* (mutation) deleting an object that is not there counts as done.
BlobDeleteIgnoresMissing(b, path, ok) == ok

\* fileRef.delete() succeeds only on an object that is there: it throws when
\* the store fails and when the store holds no such object.
BlobDeleteOk(b, path, ok) == ok /\ Exists(b, path)

\* await fileRef.delete()
DeleteBlob(r) ==
  /\ At(r, "Delete", "blob")
  /\ UNCHANGED <<records, nextId, downloads, clock, nReq, alive>>
  /\ LET q == reqs[r]
         path == Path(q.fileData.fileName)
     IN \E ok \in BOOLEAN :
          IF BlobDeleteOk(blobs, path, ok)
          THEN /\ blobs' = RemoveBlob(blobs, path)
               /\ Update(r, [Logged(q, "deleteBlob", path, 0, TRUE) EXCEPT !.pc = "doc"],
                         TRUE, "")
          ELSE /\ UNCHANGED blobs
               /\ Step(r, Catch(Logged(q, "deleteBlob", path, 0, FALSE)))

\* await fileDoc.delete(); res.status(200).send(...)
DeleteDoc(r) ==
  /\ At(r, "Delete", "doc")
  /\ UNCHANGED <<blobs, nextId, downloads, clock, nReq, alive>>
  /\ LET q == reqs[r]
     IN \E ok \in BOOLEAN :
          IF ok
          THEN /\ records' = DeleteRecord(records, q.fileId)
               /\ Update(r, Respond(Logged(q, "deleteDoc", "", q.fileId, TRUE), 200,
                                    "File deleted successfully", <<>>),
                         records' # records, "")
          ELSE /\ UNCHANGED records
               /\ Step(r, Catch(Logged(q, "deleteDoc", "", q.fileId, FALSE)))

\* -------------------------------------------------------------- statistics
\* file.getMetadata(): what the store tells about the object at a path.
Metadata(b, path) == [size |-> b[path].size, contentType |-> b[path].contentType]

NoSize(metadata) == [metadata EXCEPT !.size = <<>>]

NoType(metadata) == [metadata EXCEPT !.contentType = <<>>]

\* (mutation) the size is assigned to the total, not added to it.
AddSizeAssigns(totalUsedBytes, metadata) ==
  IF metadata.size # <<>> THEN ParseInt(metadata.size) ELSE totalUsedBytes

\* if (metadata && metadata.size) totalUsedBytes += parseInt(metadata.size, 10)
AddSize(totalUsedBytes, metadata) ==
  IF metadata.size # <<>> THEN totalUsedBytes + ParseInt(metadata.size)
  ELSE totalUsedBytes

\* const totalFiles = files.length
TotalFiles(files) == Len(files)

\* The loop over the listed objects, and the response after it.
StatisticsLoop(q) ==
  IF q.i <= Len(q.listing)
  THEN [q EXCEPT !.pc = "metadata"]
  ELSE Respond(q, 200, "",
               <<[totalDownloads |-> q.totalDownloads,
                  storageUsed |-> ToFixed2(q.totalUsedBytes),
                  totalFiles |-> TotalFiles(q.listing)]>>)

Statistics(r) ==
  /\ CanStart(r)
  /\ nReq' = nReq + 1
  /\ UNCHANGED <<blobs, records, nextId, downloads, clock, alive>>
  /\ Step(r, [Arrived("Statistics") EXCEPT !.pc = "downloads"])

\* const downloadsSnapshot = await db.collection("downloads").get()
StatisticsDownloads(r) ==
  /\ At(r, "Statistics", "downloads")
  /\ UNCHANGED <<blobs, records, nextId, downloads, clock, nReq, alive>>
  /\ LET q == reqs[r]
     IN \E ok \in BOOLEAN :
          IF ok
          THEN Step(r, [Logged(q, "getDownloads", "", 0, TRUE) EXCEPT
                          !.pc = "getFiles", !.totalDownloads = downloads])
          ELSE Step(r, Catch(Logged(q, "getDownloads", "", 0, FALSE)))

\* const [files] = await bucket.getFiles()
StatisticsGetFiles(r) ==
  /\ At(r, "Statistics", "getFiles")
  /\ UNCHANGED <<blobs, records, nextId, downloads, clock, nReq, alive>>
  /\ LET q == reqs[r]
     IN \E ok \in BOOLEAN :
          IF ok
          THEN Step(r, StatisticsLoop([Logged(q, "getFiles", "", 0, TRUE) EXCEPT
                                         !.listing = GetFiles(blobs), !.i = 1]))
          ELSE Step(r, Catch(Logged(q, "getFiles", "", 0, FALSE)))

\* const [metadata] = await file.getMetadata(), inside the loop's own try:
\* the fetch throws (always, when the object is gone), or answers without a
\* size, or answers with the object's size.
StatisticsMetadata(r) ==
  /\ At(r, "Statistics", "metadata")
  /\ UNCHANGED <<blobs, records, nextId, downloads, clock, nReq, alive>>
  /\ LET q == reqs[r]
         path == q.listing[q.i]
     IN \E outcome \in {"fail", "nosize", "size"} :
          /\ outcome # "fail" => Exists(blobs, path)
          /\ IF outcome = "fail"
             THEN Step(r, StatisticsLoop([Logged(q, "getMetadata", path, 0, FALSE)
                                            EXCEPT !.i = @ + 1]))
             ELSE LET metadata == IF outcome = "size" THEN Metadata(blobs, path)
                                  ELSE NoSize(Metadata(blobs, path))
                      entry == [Call("getMetadata", path, 0, TRUE) EXCEPT
                                  !.size = metadata.size]
                  IN Step(r, StatisticsLoop(
                       [q EXCEPT !.log = Append(@, entry), !.i = @ + 1,
                                 !.totalUsedBytes = AddSize(@, metadata)]))

\* ------------------------------------------------------------ file formats
\* The table of src/mimeTypes.js: content type -> short label.
MimeTypeMapping == [t \in {PngType} |-> <<"P", "N", "G">>]

\* mimeTypeMapping[contentType] || contentType.split("/")[1]
Classify(contentType) ==
  IF contentType \in DOMAIN MimeTypeMapping
  THEN [defined |-> TRUE, text |-> MimeTypeMapping[contentType]]
  ELSE LET pieces == Split(contentType, "/")
       IN IF Len(pieces) >= 2 THEN [defined |-> TRUE, text |-> pieces[2]]
          ELSE [defined |-> FALSE, text |-> <<>>]

\* formats.set(format, (formats.get(format) || 0) + 1), keys in insertion order
CountFormat(formats, format) ==
  IF \E k \in 1..Len(formats) : formats[k].format = format
  THEN [k \in 1..Len(formats) |->
          IF formats[k].format = format
          THEN [formats[k] EXCEPT !.count = @ + 1] ELSE formats[k]]
  ELSE Append(formats, [format |-> format, count |-> 1])

\* (mutation) one map for all requests: a call goes on counting where an
\* answered call left off.
SharedFormats ==
  LET left == {s \in Slots : reqs[s].op = "FileFormats" /\ reqs[s].pc = "done"}
  IN IF left = {} THEN <<>> ELSE reqs[CHOOSE s \in left : TRUE].formats

\* const formats = new Map()
NewFormats == <<>>

FileFormatsLoop(q) ==
  IF q.i <= Len(q.listing)
  THEN [q EXCEPT !.pc = "metadata"]
  ELSE Respond(q, 200, "", q.formats)

\* (mutation) a failing metadata fetch is caught inside the loop, which goes
\* on with the next object.
FileFormatsSkipsObject(q) == FileFormatsLoop([q EXCEPT !.i = @ + 1])

\* A throwing call anywhere in the handler ends in its one catch block.
FileFormatsOnError(q) == Catch(q)

FileFormats(r) ==
  /\ CanStart(r)
  /\ nReq' = nReq + 1
  /\ UNCHANGED <<blobs, records, nextId, downloads, clock, alive>>
  /\ Step(r, [Arrived("FileFormats") EXCEPT !.pc = "getFiles"])

\* const [files] = await bucket.getFiles()
FileFormatsGetFiles(r) ==
  /\ At(r, "FileFormats", "getFiles")
  /\ UNCHANGED <<blobs, records, nextId, downloads, clock, nReq, alive>>
  /\ LET q == reqs[r]
     IN \E ok \in BOOLEAN :
          IF ok
          THEN Step(r, FileFormatsLoop([Logged(q, "getFiles", "", 0, TRUE) EXCEPT
                                          !.listing = GetFiles(blobs), !.i = 1,
                                          !.formats = NewFormats]))
          ELSE Step(r, Catch(Logged(q, "getFiles", "", 0, FALSE)))

\* const [metadata] = await file.getMetadata(), with no try of its own: the
\* fetch throws (always, when the object is gone), or answers without a
\* content type, or answers with the object's content type.
FileFormatsMetadata(r) ==
  /\ At(r, "FileFormats", "metadata")
  /\ UNCHANGED <<blobs, records, nextId, downloads, clock, nReq, alive>>
  /\ LET q == reqs[r]
         path == q.listing[q.i]
     IN \E outcome \in {"fail", "notype", "type"} :
          /\ outcome # "fail" => Exists(blobs, path)
          /\ IF outcome = "fail"
             THEN Step(r, FileFormatsOnError(Logged(q, "getMetadata", path, 0, FALSE)))
             ELSE LET metadata == IF outcome = "type" THEN Metadata(blobs, path)
                                  ELSE NoType(Metadata(blobs, path))
                      contentType == metadata.contentType
                      entry == [Call("getMetadata", path, 0, TRUE) EXCEPT
                                  !.contentType = contentType]
                      counted == IF contentType # <<>>
                                 THEN CountFormat(q.formats, Classify(contentType))
                                 ELSE q.formats
                  IN Step(r, FileFormatsLoop(
                       [q EXCEPT !.log = Append(@, entry), !.i = @ + 1,
                                 !.formats = counted]))

\* ------------------------------------------------------------ the program
Next ==
  \E r \in Slots :
    \/ \E files \in FilesInputs, body \in FileNamesInputs : Upload(r, files, body)
    \/ UploadSave(r)
    \/ UploadGetSignedUrl(r)
    \/ UploadAdd(r)
    \/ List(r)
    \/ ListGet(r)
    \/ \E fileName \in Names : Download(r, fileName)
    \/ DownloadExists(r)
    \/ DownloadGetSignedUrl(r)
    \/ DownloadFetch(r)
    \/ \E fileId \in 1..nextId : Delete(r, fileId)
    \/ DeleteGet(r)
    \/ DeleteBlob(r)
    \/ DeleteDoc(r)
    \/ Statistics(r)
    \/ StatisticsDownloads(r)
    \/ StatisticsGetFiles(r)
    \/ StatisticsMetadata(r)
    \/ FileFormats(r)
    \/ FileFormatsGetFiles(r)
    \/ FileFormatsMetadata(r)

Spec == Init /\ [][Next]_vars


\* ------------------------------------------- file formats over any content type
\* Longest content type of the objects the format run starts on.
MaxTypeLen == 3

ContentTypeChars == {"x", "/"}

\* The content types an object of the bucket may carry: any text (here over
\* two characters), and the two types the uploads of this model carry.
ContentTypes ==
  (SeqsUpTo(ContentTypeChars, MaxTypeLen) \ {<<>>}) \cup {PngType, UnknownType}

\* The stores hold one file, uploaded with any content type.
InitAnyType ==
  /\ \E t \in ContentTypes :
       blobs = SaveBlob([p \in Paths |-> NoBlob], Path("a"),
                        [InitFile EXCEPT !.mimetype = t])
  /\ records = {FileRecord(1, "a", 0, SignedUrl(Path("a")))}
  /\ nextId = 2
  /\ downloads = DownloadEvents
  /\ clock = 0
  /\ reqs = [r \in Slots |-> NoReq]
  /\ nReq = 0
  /\ alive = TRUE

\* The file-format handler alone.
NextFormats ==
  \E r \in Slots :
    \/ FileFormats(r)
    \/ FileFormatsGetFiles(r)
    \/ FileFormatsMetadata(r)

SpecFormats == InitAnyType /\ [][NextFormats]_vars
\* ------------------------------------------------------------- properties
Requests == {reqs[s] : s \in Slots}

Answered(q, op) == q.op = op /\ q.pc = "done"

\* The request got its response, now or before the stores last changed.
Responded(q) == q.pc \in {"done", "past"} /\ q.sent >= 1

OkCalls(q, name) == SelectSeq(q.log, LAMBDA e : e.call = name /\ e.ok)

AllCalls(q, name) == SelectSeq(q.log, LAMBDA e : e.call = name)

UploadCalls == <<"save", "getSignedUrl", "add">>

\* The log of an upload that worked through its pairs in input order: the
\* calls of pair 1, then those of pair 2, ..., each save and link request at
\* the pair's own path, every call but possibly the last one successful.
InOrder(q) ==
  \A x \in 1..Len(q.log) :
    LET pair == ((x - 1) \div 3) + 1
        e == q.log[x]
    IN /\ pair <= Len(q.fileNames)
       /\ e.call = UploadCalls[((x - 1) % 3) + 1]
       /\ e.call # "add" => e.path = Path(q.fileNames[pair])
       /\ x < Len(q.log) => e.ok

\* The document the x-th call of the log (an add) created is in the store,
\* under the name of the pair the call belongs to.
Recorded(q, x) ==
  \E d \in records :
    /\ d.id = q.log[x].id
    /\ d.fileName = q.fileNames[((x - 1) \div 3) + 1]
    /\ \A e \in records : e.id = d.id => e = d

\* C1: an upload whose store call fails while pair k is processed has made
\* its calls in input order up to that call and none after it: pairs 1..k-1
\* each got their blob written at files/<name> and exactly one new document
\* (both still there unless another request changed the stores since), no
\* call was made for pairs k+1..n, and the answer is a 500 without links.
C1_StopsAtFirstFailure ==
  \A q \in Requests :
    (Answered(q, "Upload") /\ q.log # <<>> /\ ~q.log[Len(q.log)].ok) =>
      LET k == ((Len(q.log) - 1) \div 3) + 1
      IN /\ InOrder(q)
         /\ q.i = k
         /\ Len(OkCalls(q, "add")) = k - 1
         /\ Len(AllCalls(q, "save")) = k
         /\ \A x, y \in 1..Len(q.log) :
              (q.log[x].call = "add" /\ q.log[y].call = "add" /\ x # y)
                => q.log[x].id # q.log[y].id
         /\ ~q.foreign =>
              \A x \in 1..Len(q.log) :
                (q.log[x].ok /\ q.log[x].call = "save" => Exists(blobs, q.log[x].path))
                /\ (q.log[x].ok /\ q.log[x].call = "add" => Recorded(q, x))
         /\ q.status = 500 /\ q.sent = 1
         /\ q.message = "Failed to upload files"
         /\ q.data = <<>>

\* C1's case: a batch of two whose second pair fails, the first one committed.
C1_Witness ==
  \E q \in Requests :
    /\ Answered(q, "Upload") /\ q.status = 500
    /\ Len(q.fileNames) = 2 /\ q.i = 2
    /\ Len(OkCalls(q, "add")) = 1

\* C2: an upload of n pairs that reports success made exactly n blob writes
\* and n new documents, and answers n links, the i-th being the link stored
\* in the document created for the i-th pair.
C2_SuccessCounts ==
  \A q \in Requests :
    (Answered(q, "Upload") /\ q.status = 200) =>
      LET n == Len(q.files.list)
      IN /\ Len(q.log) = 3 * n
         /\ InOrder(q)
         /\ \A x \in 1..Len(q.log) : q.log[x].ok
         /\ Len(AllCalls(q, "save")) = n
         /\ Len(AllCalls(q, "add")) = n
         /\ Len(q.data) = n
         /\ q.sent = 1
         /\ \A p \in 1..n :
              /\ q.data[p] = SignedUrl(Path(q.fileNames[p]))
              /\ \A d \in records : d.id = q.log[3 * p].id =>
                   d.fileURL = q.data[p] /\ d.fileName = q.fileNames[p]
              /\ ~q.foreign => Recorded(q, 3 * p)

\* C2's case: a successful upload of two pairs with different names.
C2_Witness ==
  \E q \in Requests :
    /\ Answered(q, "Upload") /\ q.status = 200
    /\ Len(q.fileNames) = 2 /\ q.fileNames[1] # q.fileNames[2]

\* C3: an upload whose payload count differs from its declared-name count,
\* or either of whose lists is empty (both empty included), is answered 400
\* at once, without any blob write or document write.
C3_RejectsBadShape ==
  \A q \in Requests :
    (/\ q.op = "Upload"
     /\ q.files.present /\ q.body.kind = "array"
     /\ \/ Len(q.files.list) # Len(q.body.list)
        \/ Len(q.files.list) = 0
        \/ Len(q.body.list) = 0)
      => Responded(q) /\ q.status = 400 /\ q.log = <<>>

Ids(recs) == {d.id : d \in recs}

Listed(q) == {q.data[x].id : x \in 1..Len(q.data)}

\* C4 as stated: whenever a delete reports success, the document `id` is
\* absent, no blob is at files/<fileName>, and a list answered after it does
\* not include `id` -- whatever other requests did in between.
C4_DeleteLeavesNothing ==
  \A q \in Requests :
    (Answered(q, "Delete") /\ q.status = 200) =>
      /\ q.fileId \notin Ids(records)
      /\ ~Exists(blobs, Path(q.fileData.fileName))
      /\ \A l \in Requests :
           (Answered(l, "List") /\ l.status = 200) => q.fileId \notin Listed(l)

\* When a delete reports success: the document is absent, the request has
\* removed the blob at files/<fileName>, and the blob is still absent unless
\* another request wrote that path after the removal.
DeleteAtSuccess ==
  \A q \in Requests :
    (Answered(q, "Delete") /\ q.status = 200) =>
      /\ q.fileId \notin Ids(records)
      /\ Len(OkCalls(q, "deleteBlob")) = 1
      /\ OkCalls(q, "deleteBlob")[1].path = Path(q.fileData.fileName)
      /\ ~q.resaved => ~Exists(blobs, Path(q.fileData.fileName))
      /\ \A l \in Requests :
           (Answered(l, "List") /\ l.status = 200) => q.fileId \notin Listed(l)

\* A successful list shows exactly the documents in the store.
ListShowsStore ==
  \A l \in Requests :
    (Answered(l, "List") /\ l.status = 200) => Listed(l) = Ids(records)

\* An identifier the store has handed out and that is absent stays absent.
DeletedStaysDeleted ==
  \A id \in 1..(nextId - 1) : id \notin Ids(records) => id \notin Ids(records')

\* C4, amended: at the moment a delete reports success the document `id` is
\* absent and stays absent, so that every list answered afterwards (which
\* shows exactly the documents then stored) does not include it; the delete
\* has removed the blob at files/<fileName>, which is still absent at that
\* moment unless another request wrote the path after the removal.
C4_DeleteComplete ==
  [](DeleteAtSuccess /\ ListShowsStore) /\ [][DeletedStaysDeleted]_vars

\* C4's case: a delete has reported success, no one rewrote its blob, and a
\* list was answered after it.
C4_Witness ==
  \E q, l \in Requests :
    /\ Answered(q, "Delete") /\ q.status = 200 /\ ~q.resaved
    /\ Answered(l, "List") /\ l.status = 200

\* C5: a delete whose lookup finds no document for the id answers 404
\* after that one call: it attempts no blob delete and no document delete,
\* and a delete goes on to them only with a document found.
C5_DeleteNotFound ==
  \A q \in Requests :
    /\ (Answered(q, "Delete") /\ q.log[1].ok /\ ~q.fileData.found) =>
         /\ q.status = 404 /\ q.sent = 1
         /\ Len(q.log) = 1
         /\ q.fileId \notin Ids(records)
    /\ (q.op = "Delete" /\ q.pc \in {"blob", "doc"}) =>
         q.fileData.found /\ q.log[1].ok

\* C5's case: a delete of an id without a document has been answered.
C5_Witness ==
  \E q \in Requests :
    Answered(q, "Delete") /\ q.status = 404 /\ q.fileId \notin Ids(records)

\* C6: a download whose existence check finds no blob answers 404 after
\* that one call, with no link generated and no fetch attempted; link and
\* fetch are reached only after the check found the blob.
C6_DownloadNotFound ==
  \A q \in Requests :
    /\ (Answered(q, "Download") /\ q.log[1].ok /\ ~q.exists) =>
         /\ q.status = 404 /\ q.sent = 1
         /\ Len(q.log) = 1
         /\ q.fileURL = NoURL
         /\ ~Exists(blobs, Path(q.fileName))
    /\ (q.op = "Download" /\ q.pc \in {"sign", "fetch"}) => q.exists /\ q.log[1].ok
    /\ (q.op = "Download" /\ AllCalls(q, "fetch") # <<>>) => q.exists

\* C6's case: a download of a name without a blob has been answered.
C6_Witness ==
  \E q \in Requests :
    Answered(q, "Download") /\ q.status = 404 /\ ~Exists(blobs, Path(q.fileName))

Range(seq) == {seq[x] : x \in 1..Len(seq)}

\* C7: an upload that succeeds with k pairwise distinct names, none of them
\* in the bucket when it arrived, and with no other change to the stores
\* meanwhile, leaves k more objects in the bucket's listing, whose length is
\* the totalFiles an undisturbed statistics call reports; the download
\* collection, whose size is the reported totalDownloads, stays as it was.
C7_UploadAddsFiles ==
  /\ downloads = DownloadEvents
  /\ \A q \in Requests :
       (Answered(q, "Statistics") /\ q.status = 200 /\ ~q.foreign) =>
         /\ q.data[1].totalFiles = Len(GetFiles(blobs))
         /\ q.data[1].totalDownloads = downloads
  /\ \A q \in Requests :
       (/\ Answered(q, "Upload") /\ q.status = 200 /\ ~q.foreign
        /\ \A x, y \in 1..Len(q.fileNames) : x # y => q.fileNames[x] # q.fileNames[y]
        /\ \A x \in 1..Len(q.fileNames) : Path(q.fileNames[x]) \notin Range(q.before))
         => Len(GetFiles(blobs)) = Len(q.before) + Len(q.fileNames)

\* C7's case: two new files with distinct names have been uploaded, alone.
C7_Witness ==
  \E q \in Requests :
    /\ Answered(q, "Upload") /\ q.status = 200 /\ ~q.foreign
    /\ Len(q.fileNames) = 2 /\ q.fileNames[1] # q.fileNames[2]
    /\ q.before = <<>>
    /\ Len(GetFiles(blobs)) = 2

RECURSIVE FetchedBytes(_)
\* The sizes, as the store told them, of the metadata fetches that succeeded
\* with a size.
FetchedBytes(log) ==
  IF log = <<>> THEN 0
  ELSE LET e == Head(log)
       IN (IF e.call = "getMetadata" /\ e.ok /\ e.size # <<>>
           THEN ParseInt(e.size) ELSE 0) + FetchedBytes(Tail(log))

RECURSIVE StoredBytes(_, _)
\* The byte lengths of the objects whose metadata fetch succeeded with a size.
StoredBytes(log, b) ==
  IF log = <<>> THEN 0
  ELSE LET e == Head(log)
       IN (IF e.call = "getMetadata" /\ e.ok /\ e.size # <<>>
           THEN b[e.path].payload.length ELSE 0) + StoredBytes(Tail(log), b)

\* C8: a statistics call whose download count and listing succeed reports
\* success whatever the per-object metadata fetches do: every listed object
\* is visited once, totalFiles is the number of listed objects, skipped ones
\* included, and the byte total is the sum of the sizes of exactly the
\* objects whose fetch succeeded with a size.
C8_StatisticsTolerant ==
  \A q \in Requests :
    (Answered(q, "Statistics") /\ Len(q.log) >= 2 /\ q.log[1].ok /\ q.log[2].ok) =>
      LET fetches == AllCalls(q, "getMetadata")
      IN /\ q.status = 200 /\ q.sent = 1
         /\ Len(fetches) = Len(q.listing)
         /\ \A x \in 1..Len(fetches) : fetches[x].path = q.listing[x]
         /\ q.data[1].totalFiles = Len(q.listing)
         /\ q.totalUsedBytes = FetchedBytes(q.log)
         /\ q.data[1].storageUsed = ToFixed2(FetchedBytes(q.log))
         /\ ~q.foreign =>
              /\ q.listing = GetFiles(blobs)
              /\ q.totalUsedBytes = StoredBytes(q.log, blobs)

\* C8's case: of two listed objects one fetch failed and the other gave a size.
C8_Witness ==
  \E q \in Requests :
    /\ Answered(q, "Statistics") /\ q.status = 200
    /\ Len(q.listing) = 2
    /\ \E e \in Range(q.log) : e.call = "getMetadata" /\ ~e.ok
    /\ \E e \in Range(q.log) : e.call = "getMetadata" /\ e.ok /\ e.size # <<>>
    /\ q.totalUsedBytes > 0

ReadOps == {"List", "Statistics", "FileFormats"}

SameAnswer(q1, q2) ==
  q1.status = q2.status /\ q1.message = q2.message /\ q1.data = q2.data

\* Two answered calls of the same read operation, with no change to the
\* stores from the arrival of either to the answer of both.
TwoReads(q1, q2) ==
  /\ q1.op \in ReadOps /\ q1.op = q2.op
  /\ q1.pc = "done" /\ q2.pc = "done"
  /\ ~q1.foreign /\ ~q2.foreign

\* C9 as stated: two calls of a read operation with no store mutation
\* between or during them give identical results.
C9_ReadsIdempotent ==
  \A q1, q2 \in Requests : TwoReads(q1, q2) => SameAnswer(q1, q2)

\* C9, amended: two calls of a read operation with no store mutation between
\* or during them, whose store calls had the same outcomes (each threw or
\* not, gave a size or not, alike in both), give identical results.
C9_ReadsIdempotentSameOutcomes ==
  \A q1, q2 \in Requests :
    (TwoReads(q1, q2) /\ q1.log = q2.log) => SameAnswer(q1, q2)

\* C9's case: two successful file-format calls over a bucket that holds an
\* object, answered one after the other.
C9_Witness ==
  /\ TwoReads(reqs[1], reqs[2])
  /\ reqs[1].op = "FileFormats"
  /\ reqs[1].log = reqs[2].log
  /\ reqs[1].status = 200 /\ reqs[1].data # <<>>

\* C10: every request in whose handling an error was raised ends with one
\* response, the operation's generic 500, and is never left unanswered.
C10_ErrorsAnswered ==
  \A q \in Requests :
    q.threw =>
      /\ Responded(q) /\ q.sent = 1
      /\ q.status = 500
      /\ q.message = FailureMessage(q.op)


\* The text after the first "/" of a content type.
AfterSlash(t) ==
  LET k == CHOOSE j \in 1..Len(t) : t[j] = "/" /\ \A h \in 1..(j - 1) : t[h] # "/"
  IN SubSeq(t, k + 1, Len(t))

\* C11: the format classifier returns a label for every content type: the
\* table's label for a type in the table, and for any other type the text
\* after its "/"; a file-format answer over one object whose metadata gave
\* content type t therefore counts that label once.
C11_ClassifierTotal ==
  \A q \in Requests :
    (Answered(q, "FileFormats") /\ q.status = 200 /\ Len(q.log) = 2
       /\ q.log[2].contentType # <<>>) =>
      LET t == q.log[2].contentType
      IN /\ Len(q.data) = 1
         /\ q.data[1].count = 1
         /\ q.data[1].format.defined
         /\ t \in DOMAIN MimeTypeMapping => q.data[1].format.text = MimeTypeMapping[t]
         /\ t \notin DOMAIN MimeTypeMapping =>
              /\ \E j \in 1..Len(t) : t[j] = "/"
              /\ q.data[1].format.text = AfterSlash(t)

Last(log) == log[Len(log)]

\* C12: an upload makes, for each file, the blob write, then the link
\* request, then the document write, each after the one before succeeded.
\* So when the document write of file k fails, the request answers 500, the
\* blob of file k has been written and no document was created for it by
\* this request (k-1 documents, for the files before it), and the request
\* makes no further call: the blob stays where it is, holding that payload,
\* unless another request changes the stores.
C12_OrphanOnFailedAdd ==
  \A q \in Requests :
    q.op = "Upload" =>
      /\ InOrder(q)
      /\ (Responded(q) /\ q.log # <<>> /\ Last(q.log).call = "add" /\ ~Last(q.log).ok) =>
           LET k == Len(q.log) \div 3
               path == Path(q.fileNames[k])
           IN /\ q.status = 500 /\ q.sent = 1
              /\ q.log[3 * k - 2].call = "save" /\ q.log[3 * k - 2].ok
              /\ q.log[3 * k - 2].path = path
              /\ q.log[3 * k - 1].call = "getSignedUrl" /\ q.log[3 * k - 1].ok
              /\ Len(OkCalls(q, "add")) = k - 1
              /\ (q.pc = "done" /\ ~q.foreign) =>
                   /\ Exists(blobs, path)
                   /\ blobs[path].payload = q.files.list[k].buffer
                   /\ Cardinality({d \in records : d.id \in {e.id : e \in Range(OkCalls(q, "add"))}})
                        = k - 1

\* C12's case: the document write of a file failed and its blob is in the
\* bucket with no document of that name in the store.
C12_Witness ==
  \E q \in Requests :
    /\ Answered(q, "Upload") /\ q.status = 500 /\ ~q.foreign
    /\ q.log # <<>> /\ Last(q.log).call = "add" /\ ~Last(q.log).ok
    /\ Exists(blobs, Path(q.fileNames[q.i]))
    /\ \A d \in records : d.fileName # q.fileNames[q.i]

DeleteCalls == <<"get", "deleteBlob", "deleteDoc">>

\* C13: a delete removes the blob, then the document, each call after the
\* one before succeeded, and makes no call after a failed one.  When the blob
\* delete fails (also because there is no blob) the request answers 500 and
\* has not touched the document; when the blob delete succeeded and the
\* document delete fails, the request answers 500, the document is still
\* there and its blob is gone (unless another request changed the stores).
C13_DeleteNoCompensation ==
  \A q \in Requests :
    q.op = "Delete" =>
      /\ Len(q.log) <= 3
      /\ \A x \in 1..Len(q.log) :
           /\ q.log[x].call = DeleteCalls[x]
           /\ x < Len(q.log) => q.log[x].ok
      /\ (Responded(q) /\ Len(q.log) = 2 /\ ~q.log[2].ok) =>
           /\ q.status = 500 /\ q.sent = 1
           /\ q.log[2].path = Path(q.fileData.fileName)
           /\ (q.pc = "done" /\ ~q.foreign) => q.fileId \in Ids(records)
      /\ (Responded(q) /\ Len(q.log) = 3 /\ ~q.log[3].ok) =>
           /\ q.status = 500 /\ q.sent = 1
           /\ q.log[2].path = Path(q.fileData.fileName)
           /\ (q.pc = "done" /\ ~q.foreign) =>
                /\ q.fileId \in Ids(records)
                /\ ~Exists(blobs, Path(q.fileData.fileName))

\* C13's case: one delete removed the blob and failed on the document; the
\* next delete of the same id failed on the blob, which is no longer there;
\* the document is still in the store.
C13_Witness ==
  \E q1, q2 \in Requests :
    /\ Answered(q1, "Delete") /\ Len(q1.log) = 3 /\ ~q1.log[3].ok
    /\ Answered(q2, "Delete") /\ Len(q2.log) = 2 /\ ~q2.log[2].ok
    /\ q1.fileId = q2.fileId
    /\ q1.fileId \in Ids(records)
    /\ ~Exists(blobs, Path(q1.fileData.fileName))

Mutations == {"save", "add", "deleteBlob", "deleteDoc"}

\* No request outside the slots S has changed a store.
OnlyBy(S) ==
  \A s \in Slots \ S : \A e \in Range(reqs[s].log) : e.call \in Mutations => ~e.ok

\* The identifiers of the documents the requests have created.
CreatedIds == UNION {{e.id : e \in Range(OkCalls(q, "add"))} : q \in Requests}

\* Two answered uploads of one file each, under the same name, none of whose
\* store calls failed, and no other request changing the stores: both report
\* success, two documents of that name were created and are in the store,
\* and one blob is at files/<name>, holding the payload of one of the two.
SameNameUploads ==
  \A s1, s2 \in Slots :
    LET q1 == reqs[s1]
        q2 == reqs[s2]
    IN (/\ s1 # s2
        /\ q1.op = "Upload" /\ q2.op = "Upload"
        /\ Responded(q1) /\ Responded(q2)
        /\ Len(q1.fileNames) = 1 /\ q1.fileNames = q2.fileNames
        /\ \A e \in Range(q1.log) \cup Range(q2.log) : e.ok
        /\ OnlyBy({s1, s2})) =>
         LET name == q1.fileNames[1]
         IN /\ q1.status = 200 /\ q2.status = 200
            /\ Cardinality({d \in records : d.fileName = name /\ d.id \in CreatedIds}) = 2
            /\ {d.id : d \in {d \in records : d.fileName = name /\ d.id \in CreatedIds}}
                 = {q1.log[3].id, q2.log[3].id}
            /\ Exists(blobs, Path(name))
            /\ blobs[Path(name)].payload \in
                 {q1.files.list[1].buffer, q2.files.list[1].buffer}

\* A blob write that succeeds leaves its own payload at the path, whatever
\* was there, and no other step of an upload (each step is one store call,
\* noted in the log) changes a blob: the blob at a path is that of the write
\* performed last.
LastWriteWins ==
  \A r \in Slots :
    reqs[r].op = "Upload" /\ reqs'[r].log # reqs[r].log =>
      IF reqs[r].pc = "save" /\ reqs'[r].pc = "sign"
      THEN LET path == Path(reqs[r].fileNames[reqs[r].i])
           IN /\ blobs'[path].exists
              /\ blobs'[path].payload = reqs[r].files.list[reqs[r].i].buffer
              /\ \A p \in Paths \ {path} : blobs'[p] = blobs[p]
      ELSE blobs' = blobs

\* C14: two uploads under the same declared name that run concurrently and
\* meet no store failure both succeed; the document store gains two
\* documents of that name and the bucket holds one blob at files/<name>,
\* with the payload of whichever blob write was performed last.
C14_SameNameRace == []SameNameUploads /\ [][LastWriteWins]_vars

\* C14's case: two uploads of different payloads under one name, each
\* changing the stores while the other ran; the one answered first wrote its
\* blob last, and its payload is the one in the bucket.
C14_Witness ==
  \E q1, q2 \in Requests :
    /\ q1.op = "Upload" /\ q2.op = "Upload"
    /\ q1.pc = "past" /\ q2.pc = "done"
    /\ q1.status = 200 /\ q2.status = 200
    /\ q1.foreign /\ q2.foreign
    /\ Len(q1.fileNames) = 1 /\ q1.fileNames = q2.fileNames
    /\ q1.files.list[1].buffer # q2.files.list[1].buffer
    /\ blobs[Path(q1.fileNames[1])].payload = q1.files.list[1].buffer
    /\ Cardinality({d \in records : d.fileName = q1.fileNames[1]}) = 2

\* A download and a delete that removed the blob of the downloaded name, no
\* other request changing the stores: if the download relayed content, the
\* removal came after its answer (nothing changed while it ran, and the
\* stores changed since); otherwise it answered 404 after the existence
\* check alone, or the operation's 500.
DownloadAgainstDelete ==
  \A s1, s2 \in Slots :
    LET d == reqs[s1]
        x == reqs[s2]
    IN (/\ d.op = "Download" /\ Responded(d)
        /\ x.op = "Delete"
        /\ \E e \in Range(x.log) :
             e.call = "deleteBlob" /\ e.ok /\ e.path = Path(d.fileName)
        /\ OnlyBy({s1, s2})) =>
         /\ d.status \in {200, 404, 500}
         /\ d.status = 200 => ~d.foreign /\ d.pc = "past"
         /\ d.status = 404 => Len(d.log) = 1 /\ d.log[1].ok /\ ~d.exists
         /\ d.status = 500 => d.message = "Failed to download file" /\ d.data = <<>>

\* The steps of a download (each is one store call, noted in the log): an
\* existence check that is answered while no blob is at the path ends in
\* 404; a fetch made while no blob is at the path ends in the 500; and
\* content is relayed only by a fetch made while the blob is there, and is
\* that blob's.
DownloadSteps ==
  \A r \in Slots :
    reqs[r].op = "Download" /\ reqs'[r].log # reqs[r].log =>
      LET q == reqs[r]
          after == reqs'[r]
          path == Path(q.fileName)
      IN /\ (q.pc = "exists" /\ Last(after.log).ok /\ ~Exists(blobs, path)) =>
              after.pc = "done" /\ after.status = 404 /\ after.sent = 1
         /\ (q.pc = "fetch" /\ ~Exists(blobs, path)) =>
              /\ after.pc = "done" /\ after.status = 500 /\ after.sent = 1
              /\ after.message = "Failed to download file"
         /\ after.status = 200 =>
              /\ q.pc = "fetch" /\ Exists(blobs, path)
              /\ after.data[1].body = blobs[path].payload
              /\ after.data[1].contentType = blobs[path].contentType

\* C15: a download racing with a delete of the same file answers 404 when
\* the blob was removed before its existence check, the 500 (not 404) when
\* it was removed after the check and before the fetch, and never relays
\* content of a blob that was gone when the fetch was made.
C15_DownloadRace == []DownloadAgainstDelete /\ [][DownloadSteps]_vars

\* C15's case: the existence check found the blob, a delete removed it
\* while the download ran, and the download answered 500 after its fetch.
C15_Witness ==
  \E d, x \in Requests :
    /\ d.op = "Download" /\ Responded(d) /\ d.status = 500
    /\ d.exists /\ d.foreign
    /\ Len(d.log) = 3 /\ d.log[2].ok
    /\ x.op = "Delete"
    /\ \E e \in Range(x.log) : e.call = "deleteBlob" /\ e.ok /\ e.path = Path(d.fileName)
    /\ ~Exists(blobs, Path(d.fileName))

\* The documents in the store that the x-th call of q's log (an add) created.
CreatedBy(q, x) ==
  IF x <= Len(q.log) /\ q.log[x].call = "add" /\ q.log[x].ok
  THEN {d \in records : d.id = q.log[x].id}
  ELSE {}

\* C16: an upload of n pairs failed at pair k, the same batch was sent again
\* and succeeded, and nothing else changed the stores: the bucket holds one
\* blob for each distinct name of the batch, with the batch's payload, and
\* the store holds, created by these two requests, two documents for each
\* of the pairs 1..k-1 and one for each of the pairs k..n, each under its
\* pair's name.
C16_RetryDuplicates ==
  \A s1, s2 \in Slots :
    LET q1 == reqs[s1]
        q2 == reqs[s2]
    IN (/\ s1 # s2
        /\ q1.op = "Upload" /\ q2.op = "Upload"
        /\ Responded(q1) /\ Responded(q2)
        /\ q1.log # <<>> /\ ~Last(q1.log).ok
        /\ q2.status = 200
        /\ q2.files = q1.files /\ q2.fileNames = q1.fileNames
        /\ OnlyBy({s1, s2})) =>
         LET n == Len(q1.fileNames)
             k == ((Len(q1.log) - 1) \div 3) + 1
             names == Range(q1.fileNames)
         IN /\ q1.status = 500
            /\ k \in 1..n
            /\ Cardinality({p \in Range(GetFiles(blobs)) : p \in {Path(m) : m \in names}})
                 = Cardinality(names)
            /\ \A m \in names : blobs[Path(m)].payload = q1.files.list[1].buffer
            /\ \A p \in 1..n :
                 LET made == CreatedBy(q1, 3 * p) \cup CreatedBy(q2, 3 * p)
                 IN /\ Cardinality(made) = IF p < k THEN 2 ELSE 1
                    /\ \A d \in made : d.fileName = q1.fileNames[p]
            /\ Cardinality(UNION {CreatedBy(q1, 3 * p) \cup CreatedBy(q2, 3 * p) : p \in 1..n})
                 = (k - 1) + n

\* C16's case: a batch of two names failed at its second pair; the retry,
\* whose calls all came after that answer, succeeded: three documents.
C16_Witness ==
  \E q1, q2 \in Requests :
    /\ q1.op = "Upload" /\ q1.pc = "past" /\ q1.status = 500 /\ ~q1.foreign
    /\ Len(q1.fileNames) = 2 /\ q1.fileNames[1] # q1.fileNames[2]
    /\ Len(OkCalls(q1, "add")) = 1
    /\ Answered(q2, "Upload") /\ q2.status = 200
    /\ q2.files = q1.files /\ q2.fileNames = q1.fileNames
    /\ Cardinality(records) = 3
    /\ Cardinality({d \in records : d.fileName = q1.fileNames[1]}) = 2

\* Documents are created under a new identifier, one at a time, and are
\* otherwise only removed: a document that stays keeps all its fields.  The
\* download collection is not written.
RecordsAppendDelete ==
  /\ \A d \in records, e \in records' : d.id = e.id => d = e
  /\ Cardinality(records' \ records) <= 1
  /\ \A e \in records' \ records : e.id = nextId /\ nextId' = nextId + 1
  /\ \A d \in records : d.id < nextId
  /\ downloads' = downloads

\* C17 as stated: a document that exists keeps the id, fileName, uploadDate
\* and fileURL it was created with, and a blob that exists at a path keeps
\* its payload and content type; documents, blobs and download events are
\* only created and deleted.
C17_NoUpdateInPlace ==
  [][/\ RecordsAppendDelete
     /\ \A p \in Paths :
          (blobs[p].exists /\ blobs'[p].exists) =>
            /\ blobs'[p].payload = blobs[p].payload
            /\ blobs'[p].contentType = blobs[p].contentType]_vars

\* Every blob is the payload, content type and size of one uploaded file.
BlobsWhole ==
  \A p \in Paths : blobs[p].exists => \E f \in Files : blobs[p] = BlobOf(f)

\* Every document has an identifier of its own and the link of its name.
RecordsWhole ==
  \A d \in records :
    /\ d.fileURL = SignedUrl(Path(d.fileName))
    /\ \A e \in records : e.id = d.id => e = d

\* A blob changes only by being removed, or by a blob write of an upload,
\* which puts the whole of its file there in place of whatever was there.
BlobsWriteDelete ==
  \A p \in Paths :
    blobs'[p] # blobs[p] =>
      \/ blobs'[p] = NoBlob
      \/ \E r \in Slots :
           /\ reqs[r].op = "Upload" /\ reqs[r].pc = "save" /\ reqs'[r].pc = "sign"
           /\ p = Path(reqs[r].fileNames[reqs[r].i])
           /\ blobs'[p] = BlobOf(reqs[r].files.list[reqs[r].i])

\* C17, amended: a document that exists keeps the id, fileName, uploadDate
\* and fileURL it was created with, and documents are only created and
\* deleted; a blob at a path is, whole, what the last blob write at that
\* path put there: an upload to a path that holds a blob replaces its
\* payload and content type, and blobs change in no other way than by such
\* a write or by deletion; download events are never written.
C17_WholeWrites ==
  [](BlobsWhole /\ RecordsWhole) /\ [][RecordsAppendDelete /\ BlobsWriteDelete]_vars

\* C17's case: an upload under the name of a stored file has put another
\* payload and content type at its path; the file's document is as it was.
C17_Witness ==
  \E q \in Requests :
    /\ Answered(q, "Upload") /\ q.status = 200 /\ ~q.foreign
    /\ q.fileNames = <<"a">> /\ q.before = <<Path("a")>>
    /\ q.files.list[1] # InitFile
    /\ blobs[Path("a")] = BlobOf(q.files.list[1])
    /\ FileRecord(1, "a", 0, SignedUrl(Path("a"))) \in records

\* No store call of any request has failed.
NoCallFailed == \A q \in Requests : \A e \in Range(q.log) : e.ok

\* The bucket's listing before the first request arrived.
InitialPaths == IF reqs[1].pc = "idle" THEN GetFiles(blobs) ELSE reqs[1].before

\* The blob writes made at a path, by any request.
SavesAt(p) ==
  {<<s, x>> \in Slots \X (1..(3 * MaxFiles)) :
     x <= Len(reqs[s].log) /\ reqs[s].log[x].call = "save" /\ reqs[s].log[x].path = p}

\* The names ever uploaded are pairwise distinct: no path was written twice,
\* nor written while it held, or had held, a blob of the initial stores.
NamesDistinct ==
  \A p \in Paths :
    Cardinality(SavesAt(p)) + (IF p \in Range(InitialPaths) THEN 1 ELSE 0) <= 1

\* Every document has its blob, and every blob exactly one document.
OneToOne ==
  /\ \A d \in records : Exists(blobs, Path(d.fileName))
  /\ \A p \in Paths :
       blobs[p].exists => Cardinality({d \in records : Path(d.fileName) = p}) = 1

\* No request is being handled: none is between arrival and its end, or the
\* process that was handling them has ended.
Quiescent == ~alive \/ \A s \in Slots : ~InFlight(reqs[s])

\* C18: when no store call has failed and the names ever uploaded are
\* pairwise distinct, then whenever no request is in flight every document
\* has a blob at files/<fileName> and every blob exactly one document of
\* its name.
C18_OneToOne == (NoCallFailed /\ NamesDistinct /\ Quiescent) => OneToOne

\* The same while the process lives, which is where the correspondence holds.
OneToOneWhileAlive == alive => C18_OneToOne

\* C19: of two answered deletes of the same id, with no other request
\* changing the stores, at most one reports success and the other answers
\* 404 or 500; and when no store call failed other than the blob delete of
\* the one that found the blob already removed by the other, the document
\* and its blob are both absent.
C19_DoubleDelete ==
  \A s1, s2 \in Slots :
    LET q1 == reqs[s1]
        q2 == reqs[s2]
    IN (/\ s1 # s2
        /\ q1.op = "Delete" /\ q2.op = "Delete"
        /\ Responded(q1) /\ Responded(q2)
        /\ q1.fileId = q2.fileId
        /\ OnlyBy({s1, s2})) =>
         /\ ~(q1.status = 200 /\ q2.status = 200)
         /\ q1.status \in {200, 404, 500} /\ q2.status \in {200, 404, 500}
         /\ (/\ \A e \in Range(q1.log) : e.ok
             /\ \A e \in Range(q2.log) :
                  ~e.ok => e.call = "deleteBlob" /\ OkCalls(q1, "deleteBlob") # <<>>) =>
              /\ q1.fileId \notin Ids(records)
              /\ q1.fileData.found => ~Exists(blobs, Path(q1.fileData.fileName))
              /\ q2.fileData.found => ~Exists(blobs, Path(q2.fileData.fileName))

\* C19's case: both deletes found the document; one removed blob and
\* document and reported success, the other failed on its blob delete.
C19_Witness ==
  \E q1, q2 \in Requests :
    /\ q1.op = "Delete" /\ q2.op = "Delete"
    /\ Responded(q1) /\ Responded(q2)
    /\ q1.fileId = q2.fileId
    /\ q1.status = 200 /\ \A e \in Range(q1.log) : e.ok
    /\ q2.status = 500 /\ q2.fileData.found /\ Len(q2.log) = 2 /\ ~q2.log[2].ok
    /\ q1.fileId \notin Ids(records)
    /\ ~Exists(blobs, Path(q1.fileData.fileName))

RECURSIVE SumCounts(_)
\* The sum of the counts of a file-format answer.
SumCounts(formats) ==
  IF formats = <<>> THEN 0 ELSE Head(formats).count + SumCounts(Tail(formats))

\* The metadata fetches that answered with a content type.
Typed(q) == SelectSeq(q.log, LAMBDA e : e.call = "getMetadata" /\ e.ok /\ e.contentType # <<>>)

\* C20: a file-format request fails as a whole, with the 500, at the first
\* metadata fetch that fails; a successful one has fetched the metadata of
\* every listed object, in order, and the sum of its counts is the number
\* of listed objects whose metadata had a content type, which is at most
\* the number of listed objects, the totalFiles a statistics answer over
\* the same stores reports.
C20_FormatsAllOrNothing ==
  \A q \in Requests :
    (q.op = "FileFormats" /\ Responded(q)) =>
      LET fetches == AllCalls(q, "getMetadata")
      IN /\ (\E e \in Range(q.log) : ~e.ok) =>
              /\ q.status = 500 /\ q.sent = 1 /\ q.data = <<>>
              /\ q.message = "Failed to fetch file formats"
              /\ \A x \in 1..(Len(q.log) - 1) : q.log[x].ok
         /\ q.status = 200 =>
              /\ \A e \in Range(q.log) : e.ok
              /\ Len(fetches) = Len(q.listing)
              /\ \A x \in 1..Len(fetches) : fetches[x].path = q.listing[x]
              /\ SumCounts(q.data) = Len(Typed(q))
              /\ SumCounts(q.data) <= Len(q.listing)
              /\ (q.pc = "done" /\ ~q.foreign) =>
                   /\ q.listing = GetFiles(blobs)
                   /\ \A s \in Requests :
                        (Answered(s, "Statistics") /\ s.status = 200 /\ ~s.foreign) =>
                          SumCounts(q.data) <= s.data[1].totalFiles

\* C20's case: of two listed objects one had no content type; the answer
\* is a success that counts the other one alone.
C20_Witness ==
  \E q \in Requests :
    /\ Answered(q, "FileFormats") /\ q.status = 200 /\ ~q.foreign
    /\ Len(q.listing) = 2
    /\ Len(Typed(q)) = 1
    /\ SumCounts(q.data) = 1
====
